---- MODULE Spec2Model ----
(***************************************************************************)
(* Model of masterblog-api/backend/backend_app.py: the in-memory POSTS     *)
(* list and the Flask request handlers that read and mutate it.            *)
(*                                                                         *)
(* Strings are sequences of character codes, so that str.lower(), the      *)
(* lexicographic comparison of list.sort() and the substring test of       *)
(* `in` are computed rather than assumed.  A Python value is a record      *)
(* [t, s, n]: t is its type, s its characters (for a str), n its number.   *)
(***************************************************************************)
EXTENDS Integers, Sequences, FiniteSets, TLC

\* ---------------------------------------------------------------- bounds
\* A create is taken only while the id it assigns stays <= MaxId.
MaxId == 3

\* ---------------------------------------------------------------- values
Str(s) == [t |-> "str", s |-> s, n |-> 0]
Num(k) == [t |-> "num", s |-> <<>>, n |-> k]
\* Python's None (the default of request.args.get('sort', None)).
None == [t |-> "none", s |-> <<>>, n |-> 0]
\* A key that is not in the JSON payload / the query string.
Absent == [t |-> "absent", s |-> <<>>, n |-> 0]

\* "title", "content", "asc", "desc" as the handlers spell them.
TITLE == <<116, 105, 116, 108, 101>>
CONTENT == <<99, 111, 110, 116, 101, 110, 116>>
ASC == <<97, 115, 99>>
DESC == <<100, 101, 115, 99>>

\* dict.get(key, default) / request.args.get(key, default)
Get(d, key, default) == IF d[key] = Absent THEN default ELSE d[key]

\* `key in dict`
Has(d, key) == d[key] # Absent

\* Python truthiness of a value: None, "" and 0 are falsy.
Truthy(v) ==
    \/ v.t = "str" /\ v.s # <<>>
    \/ v.t = "num" /\ v.n # 0

\* Only a str has .lower(); on any other value the call raises AttributeError.
HasLower(v) == v.t = "str"

\* str.lower() on the characters: 'A'..'Z' map to 'a'..'z'.
Lower(s) == [i \in 1..Len(s) |-> IF s[i] >= 65 /\ s[i] <= 90 THEN s[i] + 32 ELSE s[i]]

\* `sub in s` for strings: sub occurs as a contiguous substring of s.
Contains(sub, s) ==
    \E i \in 0..(Len(s) - Len(sub)) : SubSeq(s, i + 1, i + Len(sub)) = sub

\* a < b for strings: lexicographic by character code.
RECURSIVE LexLess(_, _)
LexLess(a, b) ==
    IF b = <<>> THEN FALSE
    ELSE IF a = <<>> THEN TRUE
    ELSE IF a[1] # b[1] THEN a[1] < b[1]
    ELSE LexLess(Tail(a), Tail(b))

\* ---------------------------------------------------------------- the store
\* POSTS as the module defines it.
SeedPosts ==
    << [id |-> 1,
        title |-> Str(<<70, 105, 114, 115, 116, 32, 112, 111, 115, 116>>),
        content |-> Str(<<84, 104, 105, 115, 32, 105, 115, 32, 116, 104, 101, 32,
                          102, 105, 114, 115, 116, 32, 112, 111, 115, 116, 46>>)],
       [id |-> 2,
        title |-> Str(<<83, 101, 99, 111, 110, 100, 32, 112, 111, 115, 116>>),
        content |-> Str(<<84, 104, 105, 115, 32, 105, 115, 32, 116, 104, 101, 32,
                          115, 101, 99, 111, 110, 100, 32, 112, 111, 115, 116, 46>>)] >>

Ids(posts) == {posts[i].id : i \in 1..Len(posts)}

MaxOf(S) == CHOOSE m \in S : \A x \in S : x <= m

\* generate_new_id(): defined by the module, called by no handler.
generate_new_id(posts) == IF posts # <<>> THEN MaxOf(Ids(posts)) + 1 ELSE 1

\* next((post for post in POSTS if post["id"] == id), None): index of the first
\* post with that id, 0 for None.
FindIndex(posts, id) ==
    IF \E i \in 1..Len(posts) : posts[i].id = id
    THEN CHOOSE i \in 1..Len(posts) :
             /\ posts[i].id = id
             /\ \A j \in 1..(i - 1) : posts[j].id # id
    ELSE 0

\* Variant of Remove that takes the id for a position: del POSTS[id - 1].
RemoveByPosition(posts, x) ==
    LET k == IF x.id <= Len(posts) THEN x.id ELSE Len(posts)
    IN SubSeq(posts, 1, k - 1) \o SubSeq(posts, k + 1, Len(posts))

\* list.remove(x): drops the first element equal to x.
Remove(posts, x) ==
    LET k == CHOOSE i \in 1..Len(posts) :
                 /\ posts[i] = x
                 /\ \A j \in 1..(i - 1) : posts[j] # x
    IN SubSeq(posts, 1, k - 1) \o SubSeq(posts, k + 1, Len(posts))

\* ---------------------------------------------------------------- inputs
\* JSON values a client puts under "title": "a" and "A", equal ignoring case
\* (and after the seed titles by character code, before them ignoring case),
\* and a value that is not a string (the number 5); under "content": "Ab".
TitleVals == {Str(<<97>>), Str(<<65>>), Num(5)}
ContentVals == {Str(<<65, 98>>)}
\* JSON object payloads: every combination of title and content given or not,
\* and two that also carry an "id" of their own (that of an existing post)
Payloads ==
    [id : {Absent}, title : TitleVals \cup {Absent}, content : ContentVals \cup {Absent}]
    \cup {[id |-> Num(1), title |-> Str(<<97>>), content |-> Str(<<65, 98>>)],
          [id |-> Num(1), title |-> Absent, content |-> Str(<<65, 98>>)]}

\* the <int:id> path segment
PathIds == 0..MaxId

\* ?sort= : absent, empty, "title", "content", "id"
SortArgs == {Absent, Str(<<>>), Str(TITLE), Str(CONTENT), Str(<<105, 100>>)}
\* ?direction= : absent, "asc", "DESC", "up"
DirectionArgs == {Absent, Str(ASC), Str(<<68, 69, 83, 67>>), Str(<<117, 112>>)}
ListArgs == [sort : SortArgs, direction : DirectionArgs, title : {Absent}, content : {Absent}]

\* ?title= of a search: absent, empty, "S"; ?content= : absent, "B"
SearchArgs ==
    [sort : {Absent}, direction : {Absent},
     title : {Absent, Str(<<>>), Str(<<83>>)},
     content : {Absent, Str(<<66>>)}]

NoPayload == [id |-> Absent, title |-> Absent, content |-> Absent]
NoArgs == [sort |-> Absent, direction |-> Absent, title |-> Absent, content |-> Absent]

\* ---------------------------------------------------------------- state
VARIABLES
    POSTS,      \* the module-level list
    request,    \* the request handled last: [op, id, payload, args]
    response,   \* its response: [status, kind, posts]
    assigned,   \* history: every id a post ever had
    pc,         \* per worker thread: where it is in handle_posts' POST branch
    new_post,   \* per worker thread: its local new_post
    new_id      \* per worker thread: its local new_id

vars == <<POSTS, request, response, assigned, pc, new_post, new_id>>

Workers == {1, 2}

Request(op, id, payload, args) == [op |-> op, id |-> id, payload |-> payload, args |-> args]
Response(status, kind, posts) == [status |-> status, kind |-> kind, posts |-> posts]

Init ==
    /\ POSTS = SeedPosts
    /\ request = Request("none", 0, NoPayload, NoArgs)
    /\ response = Response(0, "none", <<>>)
    /\ assigned = Ids(SeedPosts)
    /\ pc = [w \in Workers |-> "idle"]
    /\ new_post = [w \in Workers |-> NoPayload]
    /\ new_id = [w \in Workers |-> 0]

\* ---------------------------------------------------------------- list
\* the record field a valid sort value names
FieldName(s) == IF s = TITLE THEN "title" ELSE "content"

\* key=lambda post: post.get(sort_field, '').lower()
SortKey(post, f) == Lower(post[f].s)

Reverse(seq) == [i \in 1..Len(seq) |-> seq[Len(seq) + 1 - i]]

\* one step of the stable sort: x goes after every element whose key is <= its own
InsertByKey(sorted, x, f) ==
    LET k == Cardinality({i \in 1..Len(sorted) :
                             ~LexLess(SortKey(x, f), SortKey(sorted[i], f))})
    IN SubSeq(sorted, 1, k) \o <<x>> \o SubSeq(sorted, k + 1, Len(sorted))

RECURSIVE StableSort(_, _)
StableSort(seq, f) ==
    IF seq = <<>> THEN <<>>
    ELSE InsertByKey(StableSort(SubSeq(seq, 1, Len(seq) - 1), f), seq[Len(seq)], f)

\* Variant of ListSort that sorts ascending and then reverses the result.
ListSortThenReverse(seq, f, reverse) ==
    IF reverse THEN Reverse(StableSort(seq, f)) ELSE StableSort(seq, f)

\* list.sort(key=..., reverse=reverse): with reverse the list is reversed, sorted
\* stably and reversed again, which keeps equal keys in their original order.
ListSort(seq, f, reverse) ==
    IF reverse THEN Reverse(StableSort(Reverse(seq), f)) ELSE StableSort(seq, f)

\* The body of get_posts, and of the GET branch of handle_posts (the same code).
ListResponse(posts, args) ==
    LET sort_field == Get(args, "sort", None)
        sort_direction == Lower(Get(args, "direction", Str(ASC)).s)
    IN IF Truthy(sort_field) /\ sort_field.s \notin {TITLE, CONTENT}
       THEN Response(400, "invalid sort field", <<>>)
       ELSE IF sort_direction \notin {ASC, DESC}
       THEN Response(400, "invalid sort direction", <<>>)
       ELSE IF Truthy(sort_field)
       THEN IF \E i \in 1..Len(posts) : ~HasLower(posts[i][FieldName(sort_field.s)])
            THEN Response(500, "internal error", <<>>)
            ELSE Response(200, "posts",
                          ListSort(posts, FieldName(sort_field.s), sort_direction = DESC))
       ELSE Response(200, "posts", posts)

\* Variant of get_posts that sorts POSTS itself instead of the copy POSTS[:].
get_posts_in_place(args) ==
    /\ request' = Request("list", 0, NoPayload, args)
    /\ response' = ListResponse(POSTS, args)
    /\ POSTS' = IF ListResponse(POSTS, args).status = 200
                THEN ListResponse(POSTS, args).posts ELSE POSTS
    /\ UNCHANGED <<assigned, pc, new_post, new_id>>

\* GET /api/posts: Flask dispatches it to get_posts, the first rule registered
get_posts(args) ==
    /\ request' = Request("list", 0, NoPayload, args)
    /\ response' = ListResponse(POSTS, args)
    /\ UNCHANGED <<POSTS, assigned, pc, new_post, new_id>>

\* ---------------------------------------------------------------- create
\* Variant of WithId that keeps an id the payload brings:
\* new_post.setdefault('id', new_id).
WithIdKeep(payload, id) ==
    [id |-> IF payload.id = Absent THEN id ELSE payload.id.n,
     title |-> payload.title, content |-> payload.content]

\* new_post['id'] = new_id
WithId(payload, id) == [id |-> id, title |-> payload.title, content |-> payload.content]

\* Variant of NewId that counts the posts: len(POSTS) + 1.
NewIdByLen(posts) == Len(posts) + 1

\* max(post['id'] for post in POSTS) + 1; max() of no posts raises ValueError
NewId(posts) == MaxOf(Ids(posts)) + 1

\* POST /api/posts: the POST branch of handle_posts
handle_posts_post(payload) ==
    /\ request' = Request("create", 0, payload, NoArgs)
    /\ IF ~Has(payload, "title") \/ ~Has(payload, "content")
       THEN /\ response' = Response(400, "title and content required", <<>>)
            /\ UNCHANGED <<POSTS, assigned>>
       ELSE IF POSTS = <<>>
       THEN /\ response' = Response(500, "internal error", <<>>)
            /\ UNCHANGED <<POSTS, assigned>>
       ELSE /\ NewId(POSTS) <= MaxId
            /\ POSTS' = Append(POSTS, WithId(payload, NewId(POSTS)))
            /\ assigned' = assigned \cup {NewId(POSTS)}
            /\ response' = Response(201, "post", <<WithId(payload, NewId(POSTS))>>)
    /\ UNCHANGED <<pc, new_post, new_id>>

\* ---------------------------------------------------------------- delete
\* DELETE /api/posts/<int:id>
delete_post(id) ==
    /\ request' = Request("delete", id, NoPayload, NoArgs)
    /\ IF FindIndex(POSTS, id) = 0
       THEN /\ response' = Response(404, "not found", <<>>)
            /\ UNCHANGED POSTS
       ELSE /\ POSTS' = Remove(POSTS, POSTS[FindIndex(POSTS, id)])
            /\ response' = Response(200, "deleted", <<>>)
    /\ UNCHANGED <<assigned, pc, new_post, new_id>>

\* ---------------------------------------------------------------- update
\* Variant of Updated that copies every key of the payload:
\* post_to_update.update(new_data).
UpdatedMerge(post, new_data) ==
    [id |-> IF new_data.id = Absent THEN post.id ELSE new_data.id.n,
     title |-> Get(new_data, "title", post.title),
     content |-> Get(new_data, "content", post.content)]

\* the two assignments of update_post to the post found
Updated(post, new_data) ==
    [id |-> post.id,
     title |-> Get(new_data, "title", post.title),
     content |-> Get(new_data, "content", post.content)]

\* PUT /api/posts/<int:id>
update_post(id, new_data) ==
    /\ request' = Request("update", id, new_data, NoArgs)
    /\ IF FindIndex(POSTS, id) = 0
       THEN /\ response' = Response(404, "not found", <<>>)
            /\ UNCHANGED POSTS
       ELSE LET k == FindIndex(POSTS, id)
            IN /\ POSTS' = [POSTS EXCEPT ![k] = Updated(POSTS[k], new_data)]
               /\ response' = Response(200, "post", <<Updated(POSTS[k], new_data)>>)
    /\ UNCHANGED <<assigned, pc, new_post, new_id>>

\* ---------------------------------------------------------------- search
\* (query in post[f].lower() if query else True)
FieldMatches(post, f, query) ==
    IF Truthy(query) THEN Contains(query.s, Lower(post[f].s)) ELSE TRUE

\* the filter of the list comprehension, for one post
Matches(post, title_query, content_query) ==
    /\ FieldMatches(post, "title", title_query)
    /\ FieldMatches(post, "content", content_query)

\* the comprehension raises AttributeError when .lower() is reached on a
\* non-string; `and` evaluates the content test only after the title test passed
FilterRaises(post, title_query, content_query) ==
    \/ Truthy(title_query) /\ ~HasLower(post.title)
    \/ /\ FieldMatches(post, "title", title_query)
       /\ Truthy(content_query)
       /\ ~HasLower(post.content)

SearchResponse(posts, args) ==
    LET title_query == Str(Lower(Get(args, "title", Str(<<>>)).s))
        content_query == Str(Lower(Get(args, "content", Str(<<>>)).s))
        Keep(post) == Matches(post, title_query, content_query)
    IN IF \E i \in 1..Len(posts) : FilterRaises(posts[i], title_query, content_query)
       THEN Response(500, "internal error", <<>>)
       ELSE Response(200, "posts", SelectSeq(posts, Keep))

\* GET /api/posts/search
search_posts(args) ==
    /\ request' = Request("search", 0, NoPayload, args)
    /\ response' = SearchResponse(POSTS, args)
    /\ UNCHANGED <<POSTS, assigned, pc, new_post, new_id>>

\* ---------------------------------------------------------------- requests one at a time
Next ==
    \/ \E args \in ListArgs : get_posts(args)
    \/ \E payload \in Payloads : handle_posts_post(payload)
    \/ \E id \in PathIds : delete_post(id)
    \/ \E id \in PathIds, new_data \in Payloads : update_post(id, new_data)
    \/ \E args \in SearchArgs : search_posts(args)

Spec == Init /\ [][Next]_vars

\* ---------------------------------------------------------------- concurrent creates
\* Two threads of the server each run the POST branch of handle_posts; a thread
\* may be preempted between its statements.

\* new_post = request.get_json(); the presence check; new_id = max(...) + 1
conc_compute(w, payload) ==
    /\ pc[w] = "idle"
    /\ request' = Request("create", 0, payload, NoArgs)
    /\ IF ~Has(payload, "title") \/ ~Has(payload, "content")
       THEN /\ response' = Response(400, "title and content required", <<>>)
            /\ UNCHANGED <<pc, new_post, new_id>>
       ELSE IF POSTS = <<>>
       THEN /\ response' = Response(500, "internal error", <<>>)
            /\ UNCHANGED <<pc, new_post, new_id>>
       ELSE /\ NewId(POSTS) <= MaxId
            /\ new_post' = [new_post EXCEPT ![w] = payload]
            /\ new_id' = [new_id EXCEPT ![w] = NewId(POSTS)]
            /\ pc' = [pc EXCEPT ![w] = "computed"]
            /\ UNCHANGED response
    /\ UNCHANGED <<POSTS, assigned>>

\* Variant of conc_append that takes the id while it appends (id generation
\* and append as one atomic step).
conc_append_atomic(w) ==
    /\ pc[w] = "computed"
    /\ POSTS' = Append(POSTS, WithId(new_post[w], NewId(POSTS)))
    /\ assigned' = assigned \cup {NewId(POSTS)}
    /\ pc' = [pc EXCEPT ![w] = "appended"]
    /\ UNCHANGED <<request, response, new_post, new_id>>

\* new_post['id'] = new_id; POSTS.append(new_post)
conc_append(w) ==
    /\ pc[w] = "computed"
    /\ POSTS' = Append(POSTS, WithId(new_post[w], new_id[w]))
    /\ assigned' = assigned \cup {new_id[w]}
    /\ pc' = [pc EXCEPT ![w] = "appended"]
    /\ UNCHANGED <<request, response, new_post, new_id>>

\* return jsonify(new_post), 201
conc_return(w) ==
    /\ pc[w] = "appended"
    /\ request' = Request("create", 0, new_post[w], NoArgs)
    /\ response' = Response(201, "post", <<WithId(new_post[w], new_id[w])>>)
    /\ pc' = [pc EXCEPT ![w] = "idle"]
    /\ UNCHANGED <<POSTS, assigned, new_post, new_id>>

NextConc ==
    \/ \E w \in Workers, payload \in Payloads : conc_compute(w, payload)
    \/ \E w \in Workers : conc_append(w)
    \/ \E w \in Workers : conc_return(w)

SpecConc == Init /\ [][NextConc]_vars

\* ================================================================ properties
UniqueIds(posts) ==
    \A i, j \in 1..Len(posts) : i # j => posts[i].id # posts[j].id

\* the step handled a create that answered 201
CreateSucceeded == request'.op = "create" /\ response'.status = 201

\* C1, as claimed: the id a successful create assigns was never the id of a
\* post before, the posts deleted since included.
C1_IdNeverReused ==
    [][CreateSucceeded => response'.posts[1].id \notin assigned]_vars

\* C1, amended: the id a successful create assigns is greater than the id of
\* every post in the store at that moment (so it differs from each of them);
\* the id of a deleted post is assigned again when no post with a greater or
\* equal id is left.
C1_IdAboveStore ==
    [][CreateSucceeded =>
          \A i \in 1..Len(POSTS) : POSTS[i].id < response'.posts[1].id]_vars

\* C1 witness: a create succeeded after some post had been deleted.
C1_Witness ==
    /\ request.op = "create"
    /\ response.status = 201
    /\ assigned \ Ids(POSTS) # {}

\* C2: every create whose payload has both title and content answers 201,
\* appends the post at the end of the store and gives it the id
\* max(existing ids) + 1, or 1 when the store is empty.
C2_ValidCreate ==
    [][(/\ request'.op = "create"
        /\ Has(request'.payload, "title")
        /\ Has(request'.payload, "content")) =>
          /\ response'.status = 201
          /\ POSTS' = Append(POSTS, [id |-> generate_new_id(POSTS),
                                     title |-> request'.payload.title,
                                     content |-> request'.payload.content])
          /\ response'.posts = <<POSTS'[Len(POSTS')]>>]_vars

\* C3: with one request handled at a time, the ids of the posts in the store
\* are pairwise distinct in every reachable state.
C3_UniqueIds == UniqueIds(POSTS)

\* C3 witness: a create whose payload carried the id of a post in the store
\* has succeeded, and that post is still there.
C3_Witness ==
    /\ request.op = "create"
    /\ response.status = 201
    /\ request.payload.id = Num(1)
    /\ 1 \in Ids(POSTS)

\* C4: a search never fails: whatever the store holds and whatever the
\* queries, it answers 200 with a list of posts.
C4_SearchNeverFails ==
    request.op = "search" => response.status = 200 /\ response.kind = "posts"

\* C5: a list request answers 400 exactly when sort is present and is not
\* exactly "title" or "content" (an empty value included) or direction is
\* present and is not "asc" or "desc" ignoring case; otherwise it answers 200.
C5_ListStatus ==
    request.op = "list" =>
        LET sort == request.args.sort
            direction == request.args.direction
            invalid ==
                \/ sort # Absent /\ sort.s \notin {TITLE, CONTENT}
                \/ direction # Absent /\ Lower(direction.s) \notin {ASC, DESC}
        IN IF invalid THEN response.status = 400 ELSE response.status = 200

\* C6: a list or a search, a create answered 400 and an update or delete
\* answered 404 leave the posts of the store and their order as they were;
\* the store changes only in a step that is a successful create, update or
\* delete.
C6_StoreFrame ==
    [][/\ (request'.op \in {"list", "search"} \/ response'.status \in {400, 404})
            => POSTS' = POSTS
       /\ POSTS' # POSTS =>
             /\ request'.op \in {"create", "update", "delete"}
             /\ response'.status \in {200, 201}]_vars

\* C6 witness: a sorted list was answered in an order that is not the store's.
C6_Witness ==
    /\ request.op = "list"
    /\ response.status = 200
    /\ Len(response.posts) = Len(POSTS)
    /\ response.posts # POSTS

\* C7: a successful update of post id sets title to the payload's title when
\* the payload has one and keeps it otherwise, the same for content; the
\* post keeps its id and its place, every other post is as it was, and an id
\* in the payload changes nothing.
C7_UpdateFrame ==
    [][(request'.op = "update" /\ response'.status = 200) =>
          \E k \in 1..Len(POSTS) :
              /\ POSTS[k].id = request'.id
              /\ Len(POSTS') = Len(POSTS)
              /\ POSTS'[k].id = request'.id
              /\ POSTS'[k].title = IF request'.payload.title # Absent
                                   THEN request'.payload.title ELSE POSTS[k].title
              /\ POSTS'[k].content = IF request'.payload.content # Absent
                                     THEN request'.payload.content ELSE POSTS[k].content
              /\ \A j \in 1..Len(POSTS) : j # k => POSTS'[j] = POSTS[j]
              /\ response'.posts = <<POSTS'[k]>>]_vars

\* C7 witness: post 2 was updated with a payload that has content and an id
\* of its own but no title; it has the new content and its seed title.
C7_Witness ==
    /\ request.op = "update"
    /\ response.status = 200
    /\ request.id = 2
    /\ request.payload.id = Num(1)
    /\ request.payload.title = Absent
    /\ \E k \in 1..Len(POSTS) :
           /\ POSTS[k].id = 2
           /\ POSTS[k].title = SeedPosts[2].title
           /\ POSTS[k].content = Str(<<65, 98>>)

\* C8: a delete of an id in the store answers 200 and removes the post with
\* that id and no other: the posts left are the others, unchanged and in the
\* same order; a delete of an id not in the store answers 404.
C8_DeleteFrame ==
    [][request'.op = "delete" =>
          LET Other(post) == post.id # request'.id
          IN IF request'.id \in Ids(POSTS)
             THEN /\ response'.status = 200
                  /\ request'.id \notin Ids(POSTS')
                  /\ POSTS' = SelectSeq(POSTS, Other)
             ELSE /\ response'.status = 404
                  /\ POSTS' = POSTS]_vars

\* C8 witness: post 2 was deleted from between posts 1 and 3.
C8_Witness ==
    /\ request.op = "delete"
    /\ response.status = 200
    /\ request.id = 2
    /\ Ids(POSTS) = {1, 3}

\* the key of the claim: the field's value with upper case folded to lower
FoldedKey(post, f) == [i \in 1..Len(post[f].s) |->
                          IF post[f].s[i] \in 65..90 THEN post[f].s[i] + 32 ELSE post[f].s[i]]

Position(seq, x) == CHOOSE i \in 1..Len(seq) : seq[i] = x

Occurrences(seq, x) == Cardinality({i \in 1..Len(seq) : seq[i] = x})

\* the last request was a list with a valid sort that was answered 200
SortedListAnswered ==
    /\ request.op = "list"
    /\ response.status = 200
    /\ request.args.sort \in {Str(TITLE), Str(CONTENT)}

C10_RaceDuplicatesId ==
    \A w, u \in Workers :
        (/\ w # u
         /\ pc[w] = "appended"
         /\ pc[u] = "appended"
         /\ new_id[w] = new_id[u]) =>
            /\ ~UniqueIds(POSTS)
            /\ \E i, j \in 1..Len(POSTS) :
                   /\ i < j
                   /\ POSTS[i].id = new_id[w]
                   /\ POSTS[j].id = new_id[w]

\* C10 witness: both threads have appended the post of their request, each
\* with the id it took before the other appended, and the ids collide.
C10_Witness ==
    /\ pc[1] = "appended"
    /\ pc[2] = "appended"
    /\ new_id[1] = new_id[2]
    /\ ~UniqueIds(POSTS)

====
